---------------------------- MODULE Spec2Model ----------------------------
(***************************************************************************)
(* Model of the smart transportation system: TrafficNetwork                *)
(* (src/src/components/traffic_network.py), AnomalyInjector                *)
(* (src/src/components/anomaly_injector.py), AnomalyDetector               *)
(* (src/src/components/anomaly_detector.py) and the driver's own steps     *)
(* (src/src/test_traffic_network.py).                                      *)
(*                                                                         *)
(* A Python dict is modelled as a TLA+ function (its key set is DOMAIN)    *)
(* together with the insertion order of its keys; a Python list is a       *)
(* sequence.  random.choice is a nondeterministic choice.                  *)
(***************************************************************************)
EXTENDS Integers, Sequences, FiniteSets, TLC

\* ------------------------------------------------------------------ bounds
MaxId == 2        \* intersection ids are 1..MaxId
MaxVeh == 2       \* vehicle ids are 1..MaxVeh
MaxDur == 0       \* green/red durations passed to add_intersection: 0..MaxDur
MaxSigDur == 2    \* the same, in the specification of the signals alone
MaxDeg == 3       \* longest neighbour list connect may build
MaxOcc == 2       \* most vehicle occurrences in the live occupant lists
MaxSteps == 2     \* largest steps value passed to cause_unexpected_stop
MaxForge == 1     \* longest occupant list of a snapshot built by the caller
MaxRed == 1       \* red durations where the first counter is looked at: 0..MaxRed

Ids == 1..MaxId
Veh == 1..MaxVeh

VARIABLES
    order,             \* insertion order of the keys of network/vehicles/signals
    network,           \* TrafficNetwork.network: id -> list of neighbour ids
    vehicles,          \* TrafficNetwork.vehicles: id -> list of vehicle ids
    signals,           \* TrafficNetwork.signals: id -> signal record
    stopped_vehicles,  \* AnomalyInjector.stopped_vehicles: vehicle -> steps left
    snapshot,          \* the driver's snapshot variable
    known_vehicles,    \* AnomalyDetector.known_vehicles
    anomaly_injector,  \* AnomalyDetector.anomaly_injector is set
    pc,                \* the driver's position in its script
    track,             \* observation of one injector call over the driver's passes
    last,              \* the last call: its name, arguments, outcome, pre-state
    watch              \* observation of one signal over consecutive update_signals

vars == <<order, network, vehicles, signals, stopped_vehicles, snapshot,
          known_vehicles, anomaly_injector, pc, track, last, watch>>

\* ------------------------------------------------------------- list helpers
Range(s) == {s[k] : k \in 1..Len(s)}

\* Python: x in s
Has(s, x) == \E k \in 1..Len(s) : s[k] = x

\* Python: s.count(x)
Count(s, x) == Cardinality({k \in 1..Len(s) : s[k] = x})

\* Python: s.remove(x), the first occurrence (the caller checks x in s)
Remove(s, x) ==
    LET k == CHOOSE j \in 1..Len(s) : s[j] = x /\ \A m \in 1..(j - 1) : s[m] # x
    IN  [m \in 1..(Len(s) - 1) |-> IF m < k THEN s[m] ELSE s[m + 1]]

\* Python: d[k] = v (insert or overwrite)
Put(d, k, v) == [x \in (DOMAIN d) \cup {k} |-> IF x = k THEN v ELSE d[x]]

\* Python: del d[k]
Del(d, k) == [x \in (DOMAIN d) \ {k} |-> d[x]]

\* All sequences over S of length at most n
SeqUpTo(S, n) == UNION {[1..k -> S] : k \in 0..n}

\* Occurrences of vehicle v in an occupant mapping m
Occ(m, v) ==
    LET RECURSIVE Sum(_)
        Sum(D) == IF D = {} THEN 0
                  ELSE LET i == CHOOSE x \in D : TRUE
                       IN  Count(m[i], v) + Sum(D \ {i})
    IN  Sum(DOMAIN m)

\* Total number of vehicle occurrences in an occupant mapping
Total(m) ==
    LET RECURSIVE Sum(_)
        Sum(D) == IF D = {} THEN 0
                  ELSE LET i == CHOOSE x \in D : TRUE
                       IN  Len(m[i]) + Sum(D \ {i})
    IN  Sum(DOMAIN m)

\* ------------------------------------------------------------ snapshots
\* A snapshot dict: its entries in key insertion order
NoSnapshot == [has |-> FALSE, d |-> <<>>]
Snap(d) == [has |-> TRUE, d |-> d]

\* {i: list(v) for i, v in self.vehicles.items()}
CopyOf(veh) == [k \in 1..Len(order) |-> [id |-> order[k], vs |-> veh[order[k]]]]

\* the occupant list the snapshot d holds for key i (empty when i is no key)
SnapList(d, i) ==
    IF \E k \in 1..Len(d) : d[k].id = i
    THEN d[CHOOSE k \in 1..Len(d) : d[k].id = i].vs
    ELSE <<>>

SnapKeys(d) == {d[k].id : k \in 1..Len(d)}

\* ---------------------------------------------------------------- last
\* What the driver knows of the last call: its name, the exception it raised
\* ("none": it returned), its arguments, the snapshot passed to it, whether its
\* working copy of the occupant mapping differed from the live one when it
\* ended, and the value it returned.
Call(op, err, a, b) ==
    [op |-> op, err |-> err, a |-> a, b |-> b,
     snapshot |-> NoSnapshot, touched |-> FALSE, out |-> <<>>]

\* ---------------------------------------------------------------- Init
\* TrafficNetwork.__init__: three empty dicts.  The driver holds no snapshot
\* and has not constructed the injector and the detector yet.
Init ==
    /\ order = <<>>
    /\ network = <<>>
    /\ vehicles = <<>>
    /\ signals = <<>>
    /\ stopped_vehicles = <<>>
    /\ snapshot = NoSnapshot
    /\ known_vehicles = {}
    /\ anomaly_injector = FALSE
    /\ pc = "setup"
    /\ track = [v |-> 0, n |-> 0, c |-> 0, at |-> 0]
    /\ last = Call("init", "none", 0, 0)
    /\ watch = [id |-> 0, c0 |-> 0, s0 |-> "red", n |-> 0, t |-> 0]

\* ------------------------------------------------------- TrafficNetwork
\* mutant: the first counter is the green duration
NewSignal_GreenCounter(g, r) ==
    [state |-> "red", green_duration |-> g, red_duration |-> r, counter |-> g]

\* lines 27-32: the signal of a new intersection
NewSignal(g, r) ==
    [state |-> "red", green_duration |-> g, red_duration |-> r, counter |-> r]

add_intersection(id, g, r) ==
    /\ IF id \in DOMAIN network
       THEN /\ UNCHANGED <<order, network, vehicles, signals>>
            /\ last' = Call("add_intersection", "ValueError", id, r)
       ELSE /\ network' = Put(network, id, <<>>)
            /\ vehicles' = Put(vehicles, id, <<>>)
            /\ signals' = Put(signals, id, NewSignal(g, r))
            /\ order' = Append(order, id)
            /\ last' = Call("add_intersection", "none", id, r)
    /\ UNCHANGED <<stopped_vehicles, snapshot, known_vehicles,
                   anomaly_injector, watch>>

\* mutant: the road is entered at its first end only
Link_OneWay(net, a, b) == [net EXCEPT ![a] = Append(@, b)]

\* lines 44-45: the two appends, the second on the result of the first
Link(net, a, b) ==
    LET n1 == [net EXCEPT ![a] = Append(@, b)]
    IN  [n1 EXCEPT ![b] = Append(@, a)]

connect_intersections(a, b) ==
    /\ IF a \notin DOMAIN network \/ b \notin DOMAIN network
       THEN /\ UNCHANGED network
            /\ last' = Call("connect_intersections", "ValueError", a, b)
       ELSE LET n2 == Link(network, a, b)
            IN  /\ \A i \in DOMAIN n2 : Len(n2[i]) <= MaxDeg
                /\ network' = n2
                /\ last' = Call("connect_intersections", "none", a, b)
    /\ UNCHANGED <<order, vehicles, signals, stopped_vehicles, snapshot,
                   known_vehicles, anomaly_injector, watch>>

\* mutant: the counter is reset to the duration of the state that ends
update_signal_OldDuration(sd) ==
    IF sd.counter > 0
    THEN [sd EXCEPT !.counter = @ - 1]
    ELSE IF sd.state = "red"
         THEN [sd EXCEPT !.state = "green", !.counter = sd.red_duration]
         ELSE [sd EXCEPT !.state = "red", !.counter = sd.green_duration]

\* mutant: the signal toggles on the call that brings its counter to 0
update_signal_Early(sd) ==
    IF sd.counter > 1
    THEN [sd EXCEPT !.counter = @ - 1]
    ELSE IF sd.state = "red"
         THEN [sd EXCEPT !.state = "green", !.counter = sd.green_duration]
         ELSE [sd EXCEPT !.state = "red", !.counter = sd.red_duration]

\* mutant: a green signal whose counter is 0 starts its green phase again
update_signal_StaysGreen(sd) ==
    IF sd.counter > 0
    THEN [sd EXCEPT !.counter = @ - 1]
    ELSE [sd EXCEPT !.state = "green", !.counter = sd.green_duration]

\* the body of update_signals' loop for one signal
update_signal(sd) ==
    IF sd.counter > 0
    THEN [sd EXCEPT !.counter = @ - 1]
    ELSE IF sd.state = "red"
         THEN [sd EXCEPT !.state = "green", !.counter = sd.green_duration]
         ELSE [sd EXCEPT !.state = "red", !.counter = sd.red_duration]

NoWatch == [id |-> 0, c0 |-> 0, s0 |-> "red", n |-> 0, t |-> 0]

\* The observation of signal w over consecutive update_signals calls: with
\* w # 0 it starts at the state before this call; otherwise the running one
\* goes on until it has seen c0 + 1 calls, and ends with the call after that.
Observe(w, sigs) ==
    LET base == IF w # 0
                THEN [id |-> w, c0 |-> signals[w].counter,
                      s0 |-> signals[w].state, n |-> 0, t |-> 0]
                ELSE watch
    IN  IF base.id = 0 \/ base.n > base.c0
        THEN NoWatch
        ELSE [base EXCEPT
                !.n = @ + 1,
                !.t = @ + (IF sigs[base.id].state # signals[base.id].state
                           THEN 1 ELSE 0)]

update_signals(w) ==
    /\ signals' = [i \in DOMAIN signals |-> update_signal(signals[i])]
    /\ watch' = Observe(w, signals')
    /\ last' = Call("update_signals", "none", 0, 0)
    /\ UNCHANGED <<order, network, vehicles, stopped_vehicles, snapshot,
                   known_vehicles, anomaly_injector>>

\* mutant: the vehicle is not taken out of the list it leaves
Depart_Keeps(np, i, v) == np

\* line 92: new_positions[i].remove(v)
Depart(np, i, v) == [np EXCEPT ![i] = Remove(@, v)]

\* mutant: the vehicle that left is not put anywhere
Arrive_Drops(np, n, v) == np

\* lines 98, 102: new_positions[n].append(v)
Arrive(np, n, v) == [np EXCEPT ![n] = Append(@, v)]

\* mutant: the signal's state is not looked at
CanMove_AnyState(e) == e.vs # <<>>

\* line 88: vehicles leave the snapshot entry e
CanMove(e) == signals[e.id].state = "green" /\ e.vs # <<>>

\* The inner loop of simulate_traffic_flow (lines 90-102) over the snapshot
\* list vs of the green intersection i: every result it can end with, one per
\* sequence of random.choice results.  list.remove raises ValueError when
\* the vehicle is not in new_positions[i].
RECURSIVE MoveVehicles(_, _, _)
MoveVehicles(np, i, vs) ==
    IF vs = <<>> THEN {[err |-> "none", np |-> np]}
    ELSE LET v == Head(vs)
         IN  IF ~Has(np[i], v) THEN {[err |-> "ValueError", np |-> np]}
             ELSE LET np1 == Depart(np, i, v)
                  IN  IF network[i] # <<>>
                      THEN UNION {MoveVehicles(Arrive(np1, n, v), i, Tail(vs))
                                  : n \in Range(network[i])}
                      ELSE MoveVehicles(Arrive(np1, i, v), i, Tail(vs))

\* mutant: the outer loop moves the vehicles the working copy holds at the
\* intersection, those that arrived during the call included
RECURSIVE MoveEntries_Live(_, _)
MoveEntries_Live(np, d) ==
    IF d = <<>> THEN {[err |-> "none", np |-> np]}
    ELSE LET e == Head(d)
         IN  IF e.id \notin DOMAIN signals
             THEN {[err |-> "KeyError", np |-> np]}
             ELSE IF CanMove(e)
                  THEN LET rs == MoveVehicles(np, e.id, np[e.id])
                       IN  {r \in rs : r.err # "none"}
                           \cup UNION {MoveEntries_Live(r.np, Tail(d))
                                       : r \in {x \in rs : x.err = "none"}}
                  ELSE MoveEntries_Live(np, Tail(d))

\* The outer loop of simulate_traffic_flow (lines 85-105) over the snapshot's
\* entries d, in the dict's order.  self.signals[intersection] raises
\* KeyError for a key that is no intersection.
RECURSIVE MoveEntries(_, _)
MoveEntries(np, d) ==
    IF d = <<>> THEN {[err |-> "none", np |-> np]}
    ELSE LET e == Head(d)
         IN  IF e.id \notin DOMAIN signals
             THEN {[err |-> "KeyError", np |-> np]}
             ELSE IF CanMove(e)
                  THEN LET rs == MoveVehicles(np, e.id, e.vs)
                       IN  {r \in rs : r.err # "none"}
                           \cup UNION {MoveEntries(r.np, Tail(d))
                                       : r \in {x \in rs : x.err = "none"}}
                  ELSE MoveEntries(np, Tail(d))

\* mutant: the live mapping is updated in place, so a call that raises leaves
\* what it did so far
simulate_traffic_flow_InPlace(arg) ==
    LET d == IF arg.has THEN arg.d ELSE CopyOf(vehicles)
    IN  \E r \in MoveEntries(vehicles, d) :
          /\ vehicles' = r.np
          /\ last' = [Call("simulate_traffic_flow", r.err, 0, 0) EXCEPT
                        !.snapshot = arg, !.touched = (r.np # vehicles)]
          /\ UNCHANGED <<order, network, signals, stopped_vehicles, snapshot,
                         known_vehicles, anomaly_injector, watch>>

\* simulate_traffic_flow(snapshot=arg); arg = NoSnapshot is snapshot=None
simulate_traffic_flow(arg) ==
    LET d == IF arg.has THEN arg.d ELSE CopyOf(vehicles)
    IN  \E r \in MoveEntries(vehicles, d) :
          /\ vehicles' = IF r.err = "none" THEN r.np ELSE vehicles
          /\ last' = [Call("simulate_traffic_flow", r.err, 0, 0) EXCEPT
                        !.snapshot = arg, !.touched = (r.np # vehicles)]
          /\ UNCHANGED <<order, network, signals, stopped_vehicles, snapshot,
                         known_vehicles, anomaly_injector, watch>>

\* -------------------------------------------------------------- driver
\* network.vehicles[i] = [...]: the driver puts the vehicles in place before
\* it constructs the injector (test_traffic_network.py, lines 21-22)
seed_vehicles(i, vs) ==
    /\ i \in DOMAIN vehicles
    /\ vs # <<>>
    /\ Total([vehicles EXCEPT ![i] = vs]) <= MaxOcc
    /\ vehicles' = [vehicles EXCEPT ![i] = vs]
    /\ last' = Call("seed_vehicles", "none", i, 0)
    /\ UNCHANGED <<order, network, signals, stopped_vehicles, snapshot,
                   known_vehicles, anomaly_injector, watch>>

\* AnomalyInjector(network) and AnomalyDetector(network, anomaly_injector,
\* known_vehicles): kv.has = FALSE is known_vehicles=None, inj = FALSE is
\* anomaly_injector=None
construct(kv, inj) ==
    /\ stopped_vehicles' = <<>>
    /\ anomaly_injector' = inj
    /\ known_vehicles' = IF kv.has /\ kv.set # {} THEN kv.set ELSE {}
    /\ last' = Call("construct", "none", IF kv.has THEN 1 ELSE 0,
                     IF inj THEN 1 ELSE 0)
    /\ UNCHANGED <<order, network, vehicles, signals, snapshot, watch>>

\* snapshot = {i: list(v) for i, v in network.vehicles.items()}
capture_snapshot ==
    /\ snapshot' = Snap(CopyOf(vehicles))
    /\ last' = Call("capture_snapshot", "none", 0, 0)
    /\ UNCHANGED <<order, network, vehicles, signals, stopped_vehicles,
                   known_vehicles, anomaly_injector, watch>>

\* for step in range(1, 6): the next pass of the loop begins; the snapshot of
\* the pass before is dead (line 57 assigns it anew before any use)
next_pass ==
    /\ snapshot' = NoSnapshot
    /\ last' = Call("next_pass", "none", 0, 0)
    /\ UNCHANGED <<order, network, vehicles, signals, stopped_vehicles,
                   known_vehicles, anomaly_injector, watch>>

\* ----------------------------------------------------- AnomalyInjector
\* the first intersection, in the dict's order, whose list holds v (0: none)
Locate(v) ==
    IF \E k \in 1..Len(order) : Has(vehicles[order[k]], v)
    THEN order[CHOOSE k \in 1..Len(order) :
                 /\ Has(vehicles[order[k]], v)
                 /\ \A m \in 1..(k - 1) : ~Has(vehicles[order[m]], v)]
    ELSE 0

\* mutant: a vehicle at a green intersection waits for the flow to move it
StaysPut_OnGreen(cur) == network[cur] = <<>> \/ signals[cur].state = "green"

\* lines 33-36: if not neighbors: return
StaysPut(cur) == network[cur] = <<>>

ignore_red_light(v) ==
    /\ LET cur == Locate(v)
       IN  IF cur = 0
           THEN /\ UNCHANGED vehicles
                /\ last' = Call("ignore_red_light", "ValueError", v, 0)
           ELSE IF StaysPut(cur)
                THEN /\ UNCHANGED vehicles
                     /\ last' = Call("ignore_red_light", "none", v, cur)
                ELSE \E n \in Range(network[cur]) :
                       /\ vehicles' =
                            [[vehicles EXCEPT ![cur] = Remove(@, v)]
                               EXCEPT ![n] = Append(@, v)]
                       /\ last' = [Call("ignore_red_light", "none", v, cur)
                                     EXCEPT !.touched = TRUE]
    /\ UNCHANGED <<order, network, signals, stopped_vehicles, snapshot,
                   known_vehicles, anomaly_injector, watch>>

\* mutant: as ignore_red_light's search, the loop ends at the first list that
\* holds v
Evict_FirstOnly(veh, v) ==
    IF Locate(v) = 0 THEN veh
    ELSE [veh EXCEPT ![Locate(v)] = Remove(@, v)]

\* lines 57-59: one occurrence of v is taken out of every list that holds it
Evict(veh, v) ==
    [j \in DOMAIN veh |-> IF Has(veh[j], v) THEN Remove(veh[j], v) ELSE veh[j]]

unauthorized_entry(v, i) ==
    /\ IF i \notin DOMAIN vehicles
       THEN /\ UNCHANGED vehicles
            /\ last' = Call("unauthorized_entry", "ValueError", v, i)
       ELSE LET removed == Evict(vehicles, v)
                placed == [removed EXCEPT ![i] = Append(@, v)]
            IN  /\ vehicles' = placed
                /\ last' = [Call("unauthorized_entry", "none", v, i)
                              EXCEPT !.touched = (removed # vehicles)]
    /\ UNCHANGED <<order, network, signals, stopped_vehicles, snapshot,
                   known_vehicles, anomaly_injector, watch>>

cause_unexpected_stop(v, steps) ==
    /\ IF ~\E i \in DOMAIN vehicles : Has(vehicles[i], v)
       THEN /\ UNCHANGED stopped_vehicles
            /\ last' = Call("cause_unexpected_stop", "ValueError", v, steps)
       ELSE /\ stopped_vehicles' = Put(stopped_vehicles, v, steps)
            /\ last' = Call("cause_unexpected_stop", "none", v, steps)
    /\ UNCHANGED <<order, network, vehicles, signals, snapshot,
                   known_vehicles, anomaly_injector, watch>>

\* mutant: v is removed from every list of the snapshot that holds it
StripFirst_EveryList(d, v) ==
    [k \in 1..Len(d) |->
       IF Has(d[k].vs, v) THEN [d[k] EXCEPT !.vs = Remove(@, v)] ELSE d[k]]

\* lines 93-96: remove v from the first list of the snapshot that holds it
StripFirst(d, v) ==
    IF \E k \in 1..Len(d) : Has(d[k].vs, v)
    THEN LET k == CHOOSE j \in 1..Len(d) :
                    /\ Has(d[j].vs, v)
                    /\ \A m \in 1..(j - 1) : ~Has(d[m].vs, v)
         IN  [d EXCEPT ![k].vs = Remove(@, v)]
    ELSE d

\* mutant: the entry is deleted after its first step, whatever its count
StopOne_OneStep(st, v) ==
    IF st[1][v] > 0
    THEN <<Del(st[1], v), StripFirst(st[2], v)>>
    ELSE <<Del(st[1], v), st[2]>>

\* lines 91-106 for the ledger entry of v, on the pair <<ledger, snapshot>>
StopOne(st, v) ==
    IF st[1][v] > 0
    THEN <<IF st[1][v] - 1 <= 0 THEN Del(st[1], v)
           ELSE [st[1] EXCEPT ![v] = @ - 1],
           StripFirst(st[2], v)>>
    ELSE <<Del(st[1], v), st[2]>>

\* the loop of apply_stops over list(self.stopped_vehicles.items()): the
\* entries are of different vehicles, so their order does not matter
RECURSIVE StopAll(_, _)
StopAll(st, todo) ==
    IF todo = {} THEN st
    ELSE LET v == CHOOSE x \in todo : \A y \in todo : x <= y
         IN  StopAll(StopOne(st, v), todo \ {v})

apply_stops ==
    /\ snapshot.has
    /\ LET st == StopAll(<<stopped_vehicles, snapshot.d>>, DOMAIN stopped_vehicles)
       IN  /\ stopped_vehicles' = st[1]
           /\ snapshot' = Snap(st[2])
    /\ last' = [Call("apply_stops", "none", 0, 0) EXCEPT
                  !.touched = (snapshot' # snapshot)]
    /\ UNCHANGED <<order, network, vehicles, signals, known_vehicles,
                   anomaly_injector, watch>>

\* ------------------------------------------------------ AnomalyDetector
\* the elements of a Python set, in the order the loop visits them (taken
\* ascending here; no claim depends on it)
RECURSIVE SetToSeq(_)
SetToSeq(S) ==
    IF S = {} THEN <<>>
    ELSE LET x == CHOOSE y \in S : \A z \in S : y <= z
         IN  <<x>> \o SetToSeq(S \ {x})

Record(kind, v, i) == [kind |-> kind, vehicle |-> v, intersection |-> i]

\* one record of `kind` at i for each element of vs
RECURSIVE Records(_, _, _)
Records(kind, vs, i) ==
    IF vs = <<>> THEN <<>>
    ELSE <<Record(kind, Head(vs), i)>> \o Records(kind, Tail(vs), i)

\* _detect_red_light_violations(snapshot)
RECURSIVE _detect_red_light_violations(_)
_detect_red_light_violations(d) ==
    IF d = <<>> THEN <<>>
    ELSE LET e == Head(d)
             here == IF signals[e.id].state = "red" /\ e.vs # <<>>
                     THEN Records("Red-Light Violation",
                                  SetToSeq(Range(e.vs) \ Range(vehicles[e.id])),
                                  e.id)
                     ELSE <<>>
         IN  here \o _detect_red_light_violations(Tail(d))

\* mutant: the list is walked as a set, as the other two passes do
Unknown_AsSet(vs) == SetToSeq(Range(vs) \ known_vehicles)

\* the vehicles of vs that are not known, in the list's order
RECURSIVE Unknown(_)
Unknown(vs) ==
    IF vs = <<>> THEN <<>>
    ELSE (IF Head(vs) \notin known_vehicles THEN <<Head(vs)>> ELSE <<>>)
         \o Unknown(Tail(vs))

\* _detect_unauthorized_vehicles(new_positions)
RECURSIVE _detect_unauthorized_vehicles(_)
_detect_unauthorized_vehicles(np) ==
    IF np = <<>> THEN <<>>
    ELSE Records("Unauthorized Vehicle", Unknown(Head(np).vs), Head(np).id)
         \o _detect_unauthorized_vehicles(Tail(np))

\* _vehicles_that_stayed(intersection_id, old_vehicles, new_positions)
_vehicles_that_stayed(i, old_vehicles, np) ==
    Range(old_vehicles) \cap Range(SnapList(np, i))

\* mutant: the ledger is not looked at
Flagged_NoLedger(i, stayed) == {v \in stayed : network[i] # <<>>}

\* lines 114-131: the vehicles of `stayed` that are flagged at i
Flagged(i, stayed) ==
    {v \in stayed :
        IF anomaly_injector
        THEN v \notin DOMAIN stopped_vehicles /\ network[i] # <<>>
        ELSE network[i] # <<>>}

\* _detect_unexpected_stops(snapshot, new_positions)
RECURSIVE _detect_unexpected_stops(_, _)
_detect_unexpected_stops(d, np) ==
    IF d = <<>> THEN <<>>
    ELSE LET e == Head(d)
             here == IF signals[e.id].state = "green" /\ e.vs # <<>>
                     THEN Records("Unexpected Stop",
                                  SetToSeq(Flagged(e.id,
                                      _vehicles_that_stayed(e.id, e.vs, np))),
                                  e.id)
                     ELSE <<>>
         IN  here \o _detect_unexpected_stops(Tail(d), np)

\* lines 35-56: the list detect_anomalies(d, np) returns
DetectOut(d, np) ==
    _detect_red_light_violations(d)
    \o _detect_unauthorized_vehicles(np)
    \o _detect_unexpected_stops(d, np)

\* detect_anomalies(snapshot, new_positions) with the driver's snapshot and
\* new_positions = {i: list(v) for i, v in network.vehicles.items()} taken
\* right before the call.  A snapshot key that is no intersection raises
\* KeyError in the first pass.
detect_anomalies ==
    /\ snapshot.has
    /\ IF SnapKeys(snapshot.d) \subseteq DOMAIN signals
       THEN last' = [Call("detect_anomalies", "none", 0, 0) EXCEPT
                       !.out = DetectOut(snapshot.d, CopyOf(vehicles))]
       ELSE last' = Call("detect_anomalies", "KeyError", 0, 0)
    /\ UNCHANGED <<order, network, vehicles, signals, stopped_vehicles,
                   snapshot, known_vehicles, anomaly_injector, watch>>

\* update_known_vehicles(additional_vehicles)
update_known_vehicles(S) ==
    /\ known_vehicles' = known_vehicles \cup S
    /\ last' = Call("update_known_vehicles", "none", 0, 0)
    /\ UNCHANGED <<order, network, vehicles, signals, stopped_vehicles,
                   snapshot, anomaly_injector, watch>>

\* ------------------------------------------------------- specifications
\* The actions above leave pc and track to the specification that uses them.

\* the snapshots a caller may build by hand and pass to simulate_traffic_flow
Forged ==
    {Snap(d) : d \in {s \in SeqUpTo([id : Ids, vs : SeqUpTo(Veh, MaxForge)], MaxId) :
                        \A j, k \in 1..Len(s) : j # k => s[j].id # s[k].id}}

NoTrack == [v |-> 0, n |-> 0, c |-> 0, at |-> 0]

Keep == UNCHANGED <<pc, track>>

\* Spec: the TrafficNetwork alone, its operations called in any order; vehicles
\* are put in place by the driver; simulate_traffic_flow is called without a
\* snapshot or with one the caller built.
Next ==
    \/ \E id \in Ids, g, r \in 0..MaxDur : add_intersection(id, g, r) /\ Keep
    \/ \E a, b \in Ids : connect_intersections(a, b) /\ Keep
    \/ update_signals(0) /\ Keep
    \/ \E arg \in {NoSnapshot} \cup Forged : simulate_traffic_flow(arg) /\ Keep
    \/ \E i \in Ids, vs \in SeqUpTo(Veh, MaxOcc) : seed_vehicles(i, vs) /\ Keep

Spec == Init /\ [][Next]_vars

\* SpecSignals: intersections are added and their signals advanced; the
\* observer may start to watch one signal at any call of update_signals.
NextSignals ==
    \/ \E id \in Ids, g, r \in 0..MaxSigDur : add_intersection(id, g, r) /\ Keep
    \/ \E w \in {0} \cup DOMAIN signals : update_signals(w) /\ Keep

SpecSignals == Init /\ [][NextSignals]_vars

\* SpecLoop: the driver's script (test_traffic_network.py, run_test).  It
\* builds a network and puts vehicles in place (pc = "setup"), constructs the
\* injector and the detector, and then passes through its loop: update_signals
\* (line 45), injector calls (48-54), the snapshot (57), apply_stops (60),
\* simulate_traffic_flow (63), detect_anomalies (66-69), and after it
\* possibly unauthorized_entry and detect_anomalies again (77-83).
\* The detector of SpecLoop is given the injector and knows vehicle 1 alone.
LoopKnown == {[has |-> TRUE, set |-> {1}]}

\* the observation of a forced stop after an injector call on vehicle v
Untrack(v) == IF track.v = v THEN NoTrack ELSE track

Setup ==
    /\ pc = "setup"
    /\ Keep
    /\ \/ \E id \in Ids, g, r \in 0..MaxDur : add_intersection(id, g, r)
       \/ \E a, b \in Ids : connect_intersections(a, b)
       \/ update_signals(0)
       \/ \E i \in Ids, vs \in SeqUpTo(Veh, MaxOcc) : seed_vehicles(i, vs)

Construct ==
    /\ pc = "setup"
    /\ \E kv \in LoopKnown : construct(kv, TRUE)
    /\ pc' = "signals"
    /\ UNCHANGED track

Signals ==
    /\ pc = "signals"
    /\ update_signals(0)
    /\ pc' = "inject"
    /\ track' = IF track.c > track.n THEN NoTrack ELSE track

StopIn(V, N) ==
    /\ pc = "inject"
    /\ \E v \in V, steps \in N, follow \in BOOLEAN :
         /\ cause_unexpected_stop(v, steps)
         /\ track' = IF follow /\ steps >= 1 /\ Occ(vehicles, v) = 1
                     THEN [v |-> v, n |-> steps, c |-> 0, at |-> Locate(v)]
                     ELSE Untrack(v)
    /\ UNCHANGED pc

IgnoreRedIn(V) ==
    /\ pc = "inject"
    /\ \E v \in V : ignore_red_light(v) /\ track' = Untrack(v)
    /\ UNCHANGED pc

EntryIn(V, I) ==
    /\ pc = "inject"
    /\ \E v \in V, i \in I : unauthorized_entry(v, i) /\ track' = Untrack(v)
    /\ UNCHANGED pc

Capture ==
    /\ pc = "inject"
    /\ capture_snapshot
    /\ pc' = "stops"
    /\ UNCHANGED track

Stops ==
    /\ pc = "stops"
    /\ apply_stops
    /\ pc' = "flow"
    /\ UNCHANGED track

Flow ==
    /\ pc = "flow"
    /\ simulate_traffic_flow(snapshot)
    /\ pc' = "detect"
    /\ track' = IF track.v # 0 THEN [track EXCEPT !.c = @ + 1] ELSE track

Detect ==
    /\ pc = "detect"
    /\ detect_anomalies
    /\ pc' = "end"
    /\ UNCHANGED track

LateEntryIn(V, I) ==
    /\ pc = "end"
    /\ last.op = "detect_anomalies"
    /\ \E v \in V, i \in I : unauthorized_entry(v, i) /\ track' = Untrack(v)
    /\ pc' = "redetect"

Redetect ==
    /\ pc = "redetect"
    /\ detect_anomalies
    /\ pc' = "end"
    /\ UNCHANGED track

NextPass ==
    /\ pc = "end"
    /\ next_pass
    /\ pc' = "signals"
    /\ UNCHANGED track

Stop == StopIn(Veh, 0..MaxSteps)
IgnoreRed == IgnoreRedIn(Veh)
Entry == EntryIn(Veh, Ids) /\ Total(vehicles') <= MaxOcc
LateEntry == LateEntryIn(Veh, Ids) /\ Total(vehicles') <= MaxOcc

NextLoop ==
    \/ Setup
    \/ Construct
    \/ Signals
    \/ Stop
    \/ IgnoreRed
    \/ Entry
    \/ Capture
    \/ Stops
    \/ Flow
    \/ Detect
    \/ LateEntry
    \/ Redetect
    \/ NextPass

SpecLoop == Init /\ [][NextLoop]_vars

\* SpecScenario: the driver's script with its own network, vehicles and
\* injector calls (test_traffic_network.py): intersections 1, 2, 3 with
\* green_duration = red_duration = 2, roads 1-2 and 2-3, Car1 and Car2 at 1,
\* Car3 at 2, the three of them known; Car2 is stopped for 2 steps, Car3
\* ignores a red light, CarX enters at 3.  The script makes these calls in
\* passes 3, 4 and 5; here any pass may make them.  Signal 1 is watched from
\* its creation.
Car1 == 1
Car2 == 2
Car3 == 3
CarX == 4
ScenarioDuration == 2
ScenarioStopSteps == 2
ScenarioEntryAt == 3

ScenarioSignal ==
    [state |-> "red", green_duration |-> ScenarioDuration,
     red_duration |-> ScenarioDuration, counter |-> ScenarioDuration]

InitScenario ==
    /\ order = <<1, 2, 3>>
    /\ network = <<(<<2>>), (<<1, 3>>), (<<2>>)>>
    /\ vehicles = <<(<<Car1, Car2>>), (<<Car3>>), (<<>>)>>
    /\ signals = <<ScenarioSignal, ScenarioSignal, ScenarioSignal>>
    /\ stopped_vehicles = <<>>
    /\ snapshot = NoSnapshot
    /\ known_vehicles = {Car1, Car2, Car3}
    /\ anomaly_injector = TRUE
    /\ pc = "signals"
    /\ track = NoTrack
    /\ last = Call("construct", "none", 1, 1)
    /\ watch = [id |-> 1, c0 |-> ScenarioDuration, s0 |-> "red", n |-> 0, t |-> 0]

ScenarioStop == StopIn({Car2}, {ScenarioStopSteps})
ScenarioIgnoreRed == IgnoreRedIn({Car3})
ScenarioLateEntry == LateEntryIn({CarX}, {ScenarioEntryAt})

NextScenario ==
    \/ Signals
    \/ ScenarioStop
    \/ ScenarioIgnoreRed
    \/ Capture
    \/ Stops
    \/ Flow
    \/ Detect
    \/ ScenarioLateEntry
    \/ Redetect
    \/ NextPass

SpecScenario == InitScenario /\ [][NextScenario]_vars

\* SpecAny: the operations of the network and of an injector constructed with
\* it, called in any order, failing calls included; a snapshot is taken, passed
\* to apply_stops and then to simulate_traffic_flow as one cycle, with no other
\* call in between.
AnyIgnoreRed ==
    /\ pc = "setup"
    /\ \E v \in Veh : ignore_red_light(v)
    /\ Keep

AnyEntry ==
    /\ pc = "setup"
    /\ \E v \in Veh, i \in Ids : unauthorized_entry(v, i)
    /\ Total(vehicles') <= MaxOcc
    /\ Keep

AnyStop ==
    /\ pc = "setup"
    /\ \E v \in Veh, steps \in 0..MaxSteps : cause_unexpected_stop(v, steps)
    /\ Keep

AnyFlow ==
    /\ pc = "setup"
    /\ simulate_traffic_flow(NoSnapshot)
    /\ Keep

AnyCapture ==
    /\ pc = "setup"
    /\ capture_snapshot
    /\ pc' = "stops"
    /\ UNCHANGED track

AnyEnd ==
    /\ pc = "detect"
    /\ next_pass
    /\ pc' = "setup"
    /\ UNCHANGED track

NextAny ==
    \/ Setup
    \/ AnyIgnoreRed
    \/ AnyEntry
    \/ AnyStop
    \/ AnyFlow
    \/ AnyCapture
    \/ Stops
    \/ Flow
    \/ AnyEnd

SpecAny == Init /\ [][NextAny]_vars

\* SpecDetect: the driver's script with a detector constructed with or without
\* a known-vehicle set and with or without the injector; the only injector
\* calls are forced stops.
DetectKnown == {[has |-> FALSE, set |-> {}], [has |-> TRUE, set |-> {1}]}

DetectConstruct ==
    /\ pc = "setup"
    /\ \E kv \in DetectKnown, inj \in BOOLEAN : construct(kv, inj)
    /\ pc' = "signals"
    /\ UNCHANGED track

DetectStop ==
    /\ pc = "inject"
    /\ \E v \in Veh, steps \in 0..MaxSteps : cause_unexpected_stop(v, steps)
    /\ Keep

NextDetect ==
    \/ Setup
    \/ DetectConstruct
    \/ Signals
    \/ DetectStop
    \/ Capture
    \/ Stops
    \/ Flow
    \/ Detect
    \/ NextPass

SpecDetect == Init /\ [][NextDetect]_vars

\* SpecKeys: as SpecAny, with intersections whose red duration differs from
\* their green duration; the vehicles come in through unauthorized_entry, and
\* every forced stop is for one step.
KeysBuild ==
    /\ pc = "setup"
    /\ Keep
    /\ \/ \E id \in Ids, g \in 0..MaxDur, r \in 0..MaxRed : add_intersection(id, g, r)
       \/ \E a, b \in Ids : connect_intersections(a, b)
       \/ update_signals(0)

KeysStop ==
    /\ pc = "setup"
    /\ \E v \in Veh : cause_unexpected_stop(v, 1)
    /\ Keep

NextKeys ==
    \/ KeysBuild
    \/ AnyIgnoreRed
    \/ AnyEntry
    \/ KeysStop
    \/ AnyCapture
    \/ Stops
    \/ Flow
    \/ AnyEnd

SpecKeys == Init /\ [][NextKeys]_vars

\* SpecRun: the driver's script where the only injector calls are
\* ignore_red_light; a call that takes its vehicle away from a red
\* intersection is observed until the pass ends.
RunRed ==
    /\ pc = "inject"
    /\ \E v \in Veh :
         /\ ignore_red_light(v)
         /\ track' = IF /\ last'.touched
                        /\ signals[Locate(v)].state = "red"
                        /\ ~Has(vehicles'[Locate(v)], v)
                     THEN [v |-> v, n |-> 0, c |-> 0, at |-> Locate(v)]
                     ELSE Untrack(v)
    /\ UNCHANGED pc

NextRun ==
    \/ Setup
    \/ Construct
    \/ Signals
    \/ RunRed
    \/ Capture
    \/ Stops
    \/ Flow
    \/ Detect
    \/ NextPass

SpecRun == Init /\ [][NextRun]_vars

\* SpecQuiet: the driver's script with no injector call but apply_stops, and
\* a detector that knows every vehicle.
QuietKnown == {[has |-> TRUE, set |-> Veh]}

QuietConstruct ==
    /\ pc = "setup"
    /\ \E kv \in QuietKnown : construct(kv, TRUE)
    /\ pc' = "signals"
    /\ UNCHANGED track

NextQuiet ==
    \/ Setup
    \/ QuietConstruct
    \/ Signals
    \/ Capture
    \/ Stops
    \/ Flow
    \/ Detect
    \/ NextPass

SpecQuiet == Init /\ [][NextQuiet]_vars

\* SpecForever: intersections are added and update_signals is called again
\* and again, for ever: the driver that keeps calling it (the loop of run_test
\* without its bound) never stops doing so, which is the weak fairness of
\* Advance.  Advance is enabled in every state.
Advance == update_signals(0) /\ Keep

NextForever ==
    \/ \E id \in Ids, g, r \in 0..MaxSigDur : add_intersection(id, g, r) /\ Keep
    \/ Advance

SpecForever == Init /\ [][NextForever]_vars /\ WF_vars(Advance)

\* ================================================================ claims
IsFlow(l) == l.op = "simulate_traffic_flow"

\* C1: every call of simulate_traffic_flow that returns, with or without a
\* snapshot, leaves the number of occurrences of every vehicle in the live
\* occupant lists, and so their total, as it was.
C1_FlowConservesVehicles ==
    [][(IsFlow(last') /\ last'.err = "none")
         => /\ \A v \in Veh : Occ(vehicles', v) = Occ(vehicles, v)
            /\ Total(vehicles') = Total(vehicles)
            /\ DOMAIN vehicles' = DOMAIN vehicles]_vars

\* a call with a snapshot built by the caller returned and moved a vehicle
C1_Witness ==
    /\ IsFlow(last) /\ last.err = "none"
    /\ last.snapshot.has /\ last.touched
    /\ Total(vehicles) >= 2

\* C2: simulate_traffic_flow takes no vehicle out of an intersection whose
\* signal is red, whatever the snapshot lists for it: its occupant list
\* before the call is a prefix of its list after the call.
C2_RedKeepsVehicles ==
    [][IsFlow(last')
         => \A i \in DOMAIN signals :
              signals[i].state = "red"
                => /\ Len(vehicles'[i]) >= Len(vehicles[i])
                   /\ SubSeq(vehicles'[i], 1, Len(vehicles[i])) = vehicles[i]]_vars

\* the snapshot lists a vehicle at a red intersection that holds one, and
\* the call moved a vehicle elsewhere
C2_Witness ==
    /\ IsFlow(last) /\ last.err = "none" /\ last.touched
    /\ \E i \in DOMAIN signals :
         /\ signals[i].state = "red"
         /\ SnapList(last.snapshot.d, i) # <<>>
         /\ Has(vehicles[i], Head(SnapList(last.snapshot.d, i)))

\* C6: a call of simulate_traffic_flow whose snapshot has a key that is no
\* intersection raises, and leaves the occupant mapping, the signals and the
\* adjacency as they were, also when entries before that key were processed.
C6_FlowAllOrNothing ==
    [][(IsFlow(last') /\ ~(SnapKeys(last'.snapshot.d) \subseteq DOMAIN signals))
         => /\ last'.err # "none"
            /\ UNCHANGED <<order, network, vehicles, signals>>]_vars

\* the call raised KeyError after it had moved a vehicle in new_positions
C6_Witness ==
    /\ IsFlow(last) /\ last.err = "KeyError" /\ last.touched

\* C7: simulate_traffic_flow returns for every snapshot whose keys are all
\* intersections, whatever vehicles its lists hold.
C7_FlowSucceedsOnKnownKeys ==
    (IsFlow(last) /\ SnapKeys(last.snapshot.d) \subseteq DOMAIN signals)
      => last.err = "none"

Duration(sd) == IF sd.state = "green" THEN sd.green_duration ELSE sd.red_duration

\* C4: from a signal with counter c >= 0, the first c calls of update_signals
\* keep its state and count down, the call after them changes the state (so
\* c + 1 calls change it exactly once) and sets the counter to the duration
\* of the new state; no counter is ever negative.
C4_TogglesOnceInCounterPlusOne ==
    /\ \A i \in DOMAIN signals : signals[i].counter >= 0
    /\ watch.id # 0
         => LET sd == signals[watch.id]
            IN  /\ watch.n <= watch.c0 + 1
                /\ watch.n <= watch.c0
                     => /\ watch.t = 0
                        /\ sd.state = watch.s0
                        /\ sd.counter = watch.c0 - watch.n
                /\ watch.n = watch.c0 + 1
                     => /\ watch.t = 1
                        /\ sd.state # watch.s0
                        /\ sd.counter = Duration(sd)

\* a signal watched from counter 2 in the middle of a green phase has seen
\* its 3 calls, and its durations differ
C4_Witness ==
    /\ watch.id # 0 /\ watch.c0 = 2 /\ watch.n = 3 /\ watch.s0 = "green"
    /\ signals[watch.id].green_duration # signals[watch.id].red_duration

\* C5 as amended: in the scenario network signal 1 is still red, with
\* counter 0, after exactly 2 calls of update_signals, and green with
\* counter 2 after exactly 3.
C5_GreenAfterThreeCalls ==
    watch.id = 1
      => /\ watch.n = 2 => (signals[1].state = "red" /\ signals[1].counter = 0)
         /\ watch.n = 3 => (signals[1].state = "green"
                            /\ signals[1].counter = ScenarioDuration)

\* the third call of update_signals has been made
C5_Witness == watch.id = 1 /\ watch.n = 3 /\ last.op = "update_signals"

\* C5 as claimed: in the scenario network signal 1 is green with counter 2
\* after exactly 2 calls of update_signals.
C5_GreenAfterTwoCalls ==
    (watch.id = 1 /\ watch.n = 2)
      => (signals[1].state = "green" /\ signals[1].counter = ScenarioDuration)

\* every vehicle occurs at most once in the occupant mapping m
Unique(m) == \A v \in Veh : Occ(m, v) <= 1

\* occurrences of vehicle v in the lists of the snapshot d
RECURSIVE SnapOcc(_, _)
SnapOcc(d, v) ==
    IF d = <<>> THEN 0 ELSE Count(Head(d).vs, v) + SnapOcc(Tail(d), v)

\* the snapshot d has the keys of the live mapping, in its order, and each of
\* its lists is the live list with some vehicles taken out
StrippedCopy(d) ==
    /\ Len(d) = Len(order)
    /\ \A k \in 1..Len(d) :
         /\ d[k].id = order[k]
         /\ \A v \in Veh : Count(d[k].vs, v) <= Count(vehicles[d[k].id], v)

\* C3: with every vehicle at most once in the network and a snapshot that is
\* a copy of the live mapping, stopped vehicles stripped or not, the call
\* returns and moves each vehicle at most once: a vehicle the snapshot lists
\* at a green intersection i is afterwards at an element of i's neighbour
\* list, or at i when that list is empty; every other vehicle is where it was.
C3_EachVehicleMovesAtMostOnce ==
    [][(IsFlow(last') /\ last'.snapshot = snapshot /\ snapshot.has
        /\ StrippedCopy(snapshot.d) /\ Unique(vehicles))
         => /\ last'.err = "none"
            /\ \A v \in Veh :
                 Occ(vehicles, v) = 1
                   => LET i == Locate(v)
                      IN  /\ Occ(vehicles', v) = 1
                          /\ IF Has(SnapList(snapshot.d, i), v)
                                /\ signals[i].state = "green"
                                /\ network[i] # <<>>
                             THEN \E x \in Range(network[i]) : Has(vehicles'[x], v)
                             ELSE Has(vehicles'[i], v)]_vars

\* a vehicle went from a green intersection to another green one that comes
\* later in the snapshot and has neighbours, where it stays
C3_Witness ==
    /\ IsFlow(last) /\ last.err = "none" /\ pc = "detect" /\ Unique(vehicles)
    /\ \E j, k \in 1..Len(order) : \E v \in Veh :
         /\ j < k
         /\ signals[order[j]].state = "green" /\ signals[order[k]].state = "green"
         /\ network[order[k]] # <<>>
         /\ Has(SnapList(snapshot.d, order[j]), v)
         /\ Has(vehicles[order[k]], v)

\* C8: apply_stops on a snapshot that is a copy of the live mapping takes out
\* of it one occurrence of each vehicle whose ledger count is > 0 and nothing
\* else, decrements each such count and deletes the entry at zero, and leaves
\* the live occupant mapping, the signals and the adjacency as they were.
C8_ApplyStopsStripsOneEach ==
    [][(last'.op = "apply_stops" /\ snapshot = Snap(CopyOf(vehicles)))
         => /\ Len(snapshot'.d) = Len(snapshot.d)
            /\ \A k \in 1..Len(snapshot.d) :
                 /\ snapshot'.d[k].id = snapshot.d[k].id
                 /\ \A v \in Veh :
                      Count(snapshot'.d[k].vs, v) <= Count(snapshot.d[k].vs, v)
            /\ \A v \in Veh :
                 SnapOcc(snapshot'.d, v) =
                   SnapOcc(snapshot.d, v)
                   - (IF v \in DOMAIN stopped_vehicles /\ stopped_vehicles[v] > 0
                      THEN 1 ELSE 0)
            /\ \A v \in DOMAIN stopped_vehicles :
                 stopped_vehicles[v] > 0
                   => IF stopped_vehicles[v] = 1
                      THEN v \notin DOMAIN stopped_vehicles'
                      ELSE /\ v \in DOMAIN stopped_vehicles'
                           /\ stopped_vehicles'[v] = stopped_vehicles[v] - 1
            /\ DOMAIN stopped_vehicles' \subseteq DOMAIN stopped_vehicles
            /\ UNCHANGED <<order, network, vehicles, signals>>]_vars

\* apply_stops took one of the two occurrences of a stopped vehicle out of the
\* snapshot, and the vehicle stays stopped
C8_Witness ==
    /\ last.op = "apply_stops" /\ last.touched
    /\ \E v \in DOMAIN stopped_vehicles :
         Occ(vehicles, v) = 2 /\ SnapOcc(snapshot.d, v) = 1

\* the passes whose apply_stops has run since the observed call
StopsDone == track.c + (IF pc = "flow" THEN 1 ELSE 0)

\* C9: after cause_unexpected_stop(v, n), n >= 1, on a vehicle that is in the
\* network once, and with no further injector call on v: in each of the next
\* n passes the ledger counts down by one, the snapshot passed to
\* simulate_traffic_flow does not hold v, and v stays at its intersection,
\* green with neighbours or not; in pass n + 1 v is out of the ledger and in
\* the snapshot, and the call moves it to a neighbour if its intersection is
\* green and has one.
C9_StoppedForNPasses ==
    track.v # 0
      => LET v == track.v
             n == track.n
             c == track.c
             at == track.at
         IN  /\ Occ(vehicles, v) = 1
             /\ c <= n => Has(vehicles[at], v)
             /\ StopsDone < n
                  => /\ v \in DOMAIN stopped_vehicles
                     /\ stopped_vehicles[v] = n - StopsDone
             /\ StopsDone >= n => v \notin DOMAIN stopped_vehicles
             /\ (pc = "flow" /\ c < n) => SnapOcc(snapshot.d, v) = 0
             /\ (pc = "flow" /\ c = n) => Has(SnapList(snapshot.d, at), v)
             /\ c = n + 1
                  => IF signals[at].state = "green" /\ network[at] # <<>>
                     THEN \E x \in Range(network[at]) : Has(vehicles[x], v)
                     ELSE Has(vehicles[at], v)

\* a vehicle stopped for 2 passes is still at its intersection after the
\* second, in which the intersection was green and had a neighbour
C9_Witness ==
    /\ track.v # 0 /\ track.n = 2 /\ track.c = 2 /\ pc = "detect"
    /\ signals[track.at].state = "green"
    /\ \E x \in Range(network[track.at]) : x # track.at
    /\ Has(vehicles[track.at], track.v)

\* the number of records of out equal to r
CountRecords(out, r) == Cardinality({k \in 1..Len(out) : out[k] = r})

\* the records of kind "Unauthorized Vehicle" in out that name vehicle v
UnauthorizedOf(out, v) ==
    {k \in 1..Len(out) :
       out[k].kind = "Unauthorized Vehicle" /\ out[k].vehicle = v}

\* C10: detect_anomalies returns one "Unauthorized Vehicle" record for each
\* occurrence in new_positions of a vehicle that is not known, with the
\* vehicle and its intersection, and none for a known vehicle; so the call
\* made after unauthorized_entry(v, i), for an unknown v that is then in the
\* network once, returns exactly one such record for v, at i.
C10_UnauthorizedRecords ==
    /\ (last.op = "detect_anomalies" /\ last.err = "none")
         => /\ \A v \in Veh : \A i \in DOMAIN vehicles :
                 CountRecords(last.out, Record("Unauthorized Vehicle", v, i))
                   = IF v \in known_vehicles THEN 0 ELSE Count(vehicles[i], v)
            /\ \A v \in Veh :
                 Cardinality(UnauthorizedOf(last.out, v))
                   = IF v \in known_vehicles THEN 0 ELSE Occ(vehicles, v)
    /\ (pc = "redetect" /\ last.err = "none" /\ last.a \notin known_vehicles
        /\ Occ(vehicles, last.a) = 1)
         => LET out == DetectOut(snapshot.d, CopyOf(vehicles))
            IN  /\ Cardinality(UnauthorizedOf(out, last.a)) = 1
                /\ CountRecords(out, Record("Unauthorized Vehicle", last.a, last.b)) = 1

\* the call after the entry of an unknown vehicle returned its record, and
\* one list holds an unknown vehicle twice
C10_Witness ==
    /\ last.op = "detect_anomalies" /\ last.err = "none" /\ pc = "end"
    /\ \E i \in DOMAIN vehicles : \E v \in Veh \ known_vehicles :
         /\ Count(vehicles[i], v) = 2
         /\ CountRecords(last.out, Record("Unauthorized Vehicle", v, i)) = 2

\* C11: a call of unauthorized_entry(v, i) that returns, made in a state where
\* no occupant list holds v more than once, leaves v once in the list of i
\* and in no other list, wherever v was before, and leaves the occurrences of
\* every other vehicle in every list as they were.
C11_EntryPlacesOnce ==
    [][(last'.op = "unauthorized_entry" /\ last'.err = "none"
        /\ \A j \in DOMAIN vehicles : Count(vehicles[j], last'.a) <= 1)
         => LET v == last'.a
                i == last'.b
            IN  /\ DOMAIN vehicles' = DOMAIN vehicles
                /\ Count(vehicles'[i], v) = 1
                /\ vehicles'[i][Len(vehicles'[i])] = v
                /\ \A j \in DOMAIN vehicles \ {i} : Count(vehicles'[j], v) = 0
                /\ \A j \in DOMAIN vehicles : \A w \in Veh \ {v} :
                     Count(vehicles'[j], w) = Count(vehicles[j], w)]_vars

\* the call took v out of a list and put it behind another vehicle at i
C11_Witness ==
    /\ last.op = "unauthorized_entry" /\ last.err = "none" /\ last.touched
    /\ Len(vehicles[last.b]) = 2
    /\ vehicles[last.b][1] # last.a
    /\ vehicles[last.b][2] = last.a

\* the list s with every occurrence of v left out
Without(s, v) == SelectSeq(s, LAMBDA x : x # v)

\* C12: ignore_red_light(v) for a vehicle that is in the network, i being
\* the intersection the call finds it at, returns; if i has no neighbour
\* nothing changes; otherwise one occurrence of v leaves the list of i and v
\* is appended to the list of an element of i's neighbour list, whatever the
\* signal of i and the ledger say; every other vehicle keeps its place in
\* every list, and signals, adjacency and ledger are as they were.
C12_IgnoreRedMovesToNeighbour ==
    [][(last'.op = "ignore_red_light" /\ Locate(last'.a) # 0)
         => LET v == last'.a
                i == Locate(v)
            IN  /\ last'.err = "none"
                /\ UNCHANGED <<order, network, signals, stopped_vehicles, snapshot>>
                /\ DOMAIN vehicles' = DOMAIN vehicles
                /\ \A j \in DOMAIN vehicles :
                     Without(vehicles'[j], v) = Without(vehicles[j], v)
                /\ IF network[i] = <<>>
                   THEN UNCHANGED vehicles
                   ELSE \E n \in Range(network[i]) :
                          /\ vehicles'[n] # <<>>
                          /\ vehicles'[n][Len(vehicles'[n])] = v
                          /\ \A j \in DOMAIN vehicles :
                               Count(vehicles'[j], v) =
                                 Count(vehicles[j], v)
                                 - (IF j = i THEN 1 ELSE 0)
                                 + (IF j = n THEN 1 ELSE 0)]_vars

\* a vehicle with a running forced stop left a red intersection for another
\* one, where it came behind another vehicle
C12_Witness ==
    /\ last.op = "ignore_red_light" /\ last.err = "none" /\ last.touched
    /\ signals[last.b].state = "red"
    /\ last.a \in DOMAIN stopped_vehicles
    /\ stopped_vehicles[last.a] > 0
    /\ ~Has(vehicles[last.b], last.a)
    /\ \E n \in Range(network[last.b]) :
         Len(vehicles[n]) = 2 /\ vehicles[n][2] = last.a

\* v is named by an "Unexpected Stop" record of out at i
StopFlagged(out, v, i) == CountRecords(out, Record("Unexpected Stop", v, i))

\* C13: the list detect_anomalies returns has an "Unexpected Stop" record for
\* v at i, and then one only, exactly when the live signal of i is green, v is
\* in the snapshot's list of i and in new_positions' list of i, i has a
\* neighbour, and the detector has no injector or v is no key of the ledger;
\* so a vehicle that stays at an intersection without neighbours is not
\* flagged.
C13_UnexpectedStopIff ==
    (last.op = "detect_anomalies" /\ last.err = "none")
      => \A v \in Veh : \A i \in DOMAIN vehicles :
           /\ StopFlagged(last.out, v, i) <= 1
           /\ StopFlagged(last.out, v, i) = 1
                <=> /\ signals[i].state = "green"
                    /\ Has(SnapList(snapshot.d, i), v)
                    /\ Has(vehicles[i], v)
                    /\ network[i] # <<>>
                    /\ ~anomaly_injector \/ v \notin DOMAIN stopped_vehicles

\* a detector without the injector flags a vehicle that stayed at a green
\* intersection and is a key of the ledger
C13_Witness ==
    /\ last.op = "detect_anomalies" /\ last.err = "none" /\ ~anomaly_injector
    /\ \E v \in DOMAIN stopped_vehicles : \E i \in DOMAIN vehicles :
         /\ StopFlagged(last.out, v, i) = 1
         /\ Has(SnapList(snapshot.d, i), v) /\ Has(vehicles[i], v)

\* the three maps have the same keys, and every neighbour is one of them
KeysAgree ==
    /\ DOMAIN network = DOMAIN vehicles
    /\ DOMAIN network = DOMAIN signals
    /\ DOMAIN network = Range(order)
    /\ \A i \in DOMAIN network : Range(network[i]) \subseteq DOMAIN network

\* add_intersection(id, g, r), with id = last'.a and r = last'.b
AddContract ==
    last'.op = "add_intersection"
      => LET id == last'.a
         IN  IF id \in DOMAIN network
             THEN /\ last'.err = "ValueError"
                  /\ UNCHANGED <<order, network, vehicles, signals>>
             ELSE /\ last'.err = "none"
                  /\ DOMAIN network' = DOMAIN network \cup {id}
                  /\ DOMAIN vehicles' = DOMAIN vehicles \cup {id}
                  /\ DOMAIN signals' = DOMAIN signals \cup {id}
                  /\ network'[id] = <<>>
                  /\ vehicles'[id] = <<>>
                  /\ signals'[id].state = "red"
                  /\ signals'[id].counter = last'.b
                  /\ \A j \in DOMAIN network :
                       /\ network'[j] = network[j]
                       /\ vehicles'[j] = vehicles[j]
                       /\ signals'[j] = signals[j]

\* C14: in every state reached through add_intersection, connect_intersections,
\* update_signals, simulate_traffic_flow and the injector's operations, failing
\* calls included, the adjacency, signal and occupant maps have the same keys
\* and every neighbour is a key; add_intersection(id, g, r) for a new id adds
\* id alone to the three maps, with empty lists, state red and counter r; for
\* a present id it fails and leaves the three maps as they were.
C14_MapsShareKeys == []KeysAgree /\ [][AddContract]_vars

\* an intersection with red duration 1 was added to a network that has an
\* intersection with a neighbour and a vehicle
C14_Witness ==
    /\ last.op = "add_intersection" /\ last.err = "none" /\ last.b = 1
    /\ signals[last.a].green_duration = 0
    /\ \E j \in DOMAIN network \ {last.a} :
         network[j] # <<>> /\ vehicles[j] # <<>>

\* between two different intersections there are as many entries one way as
\* the other
Symmetric ==
    \A a, b \in DOMAIN network :
      a # b => Count(network[a], b) = Count(network[b], a)

\* connect_intersections(a, b), with a = last'.a and b = last'.b
ConnectContract ==
    last'.op = "connect_intersections"
      => LET a == last'.a
             b == last'.b
         IN  IF a \notin DOMAIN network \/ b \notin DOMAIN network
             THEN /\ last'.err = "ValueError"
                  /\ UNCHANGED <<order, network, vehicles, signals>>
             ELSE /\ last'.err = "none"
                  /\ DOMAIN network' = DOMAIN network
                  /\ network'[a] = network[a] \o (IF a = b THEN <<a, a>> ELSE <<b>>)
                  /\ network'[b] = network[b] \o (IF a = b THEN <<a, a>> ELSE <<a>>)
                  /\ \A j \in DOMAIN network \ {a, b} : network'[j] = network[j]

\* every other operation leaves the neighbour lists there are as they were
OthersKeepRoads ==
    last'.op # "connect_intersections"
      => \A j \in DOMAIN network :
           j \in DOMAIN network' /\ network'[j] = network[j]

\* C15: the adjacency is symmetric in every reachable state; connect(a, b)
\* appends b to the list of a and a to the list of b, so connect(a, a)
\* appends a twice to the list of a; with a missing endpoint it fails and
\* changes nothing; update_signals, simulate_traffic_flow and the injector's
\* operations leave every neighbour list as it was.
C15_AdjacencySymmetric ==
    []Symmetric /\ [][ConnectContract /\ OthersKeepRoads]_vars

\* a self-loop was added at an intersection that has a road to the other one
C15_Witness ==
    /\ last.op = "connect_intersections" /\ last.err = "none"
    /\ last.a = last.b
    /\ Len(network[last.a]) = 3
    /\ \E b \in DOMAIN network \ {last.a} : network[last.a][1] = b

\* C16: after any calls of cause_unexpected_stop, whatever steps value is
\* passed, and of apply_stops, every entry of the ledger has a count > 0.
C16_LedgerCountsPositive ==
    \A v \in DOMAIN stopped_vehicles : stopped_vehicles[v] > 0

\* C17: a detector constructed without a known-vehicle set (in SpecDetect the
\* one whose known_vehicles is empty) reports no "Unauthorized Vehicle" record
\* for a vehicle that was in the network when it was constructed (in
\* SpecDetect no vehicle comes in later).
C17_DefaultKnowsAll ==
    (last.op = "detect_anomalies" /\ last.err = "none" /\ known_vehicles = {})
      => \A v \in Veh : UnauthorizedOf(last.out, v) = {}

\* C18: when, in a pass of the driver's loop, ignore_red_light takes vehicle v
\* away from an intersection i whose signal is red, the detect_anomalies call
\* of that pass returns a "Red-Light Violation" record for v at i.
C18_RedRunDetected ==
    (last.op = "detect_anomalies" /\ last.err = "none" /\ track.v # 0)
      => CountRecords(last.out,
                      Record("Red-Light Violation", track.v, track.at)) >= 1

\* C19: with every vehicle known and once in the network, and no call of
\* ignore_red_light, unauthorized_entry or cause_unexpected_stop, every
\* detect_anomalies call of the driver's loop returns the empty list,
\* whatever roads connect_intersections has built.
C19_NoFalsePositives ==
    (last.op = "detect_anomalies" /\ last.err = "none" /\ Unique(vehicles))
      => last.out = <<>>

\* C20: from a state where every vehicle is at most once in the live occupant
\* lists, every call of update_signals, ignore_red_light, unauthorized_entry,
\* cause_unexpected_stop, and every step of a snapshot/apply_stops/
\* simulate_traffic_flow cycle on a copy of the live mapping, failing calls
\* included, leads to such a state again, and no vehicle that was in the
\* network has left it.  (A call that leaves the lists as they were keeps
\* both trivially, so only the calls that change a list are looked at.)
C20_UniquenessKept ==
    [][(last'.op # "seed_vehicles" /\ vehicles' # vehicles /\ Unique(vehicles))
         => /\ Unique(vehicles')
            /\ \A v \in Veh : Occ(vehicles, v) = 1 => Occ(vehicles', v) = 1]_vars

\* a cycle has moved a vehicle while the other one, with a running forced
\* stop, was out of the snapshot
C20_Witness ==
    /\ IsFlow(last) /\ last.err = "none" /\ last.touched /\ last.snapshot.has
    /\ Unique(vehicles) /\ Total(vehicles) = 2
    /\ \E v \in Veh : SnapOcc(snapshot.d, v) = 0 /\ Occ(vehicles, v) = 1

\* the length of a signal's cycle, and the place of its state in the cycle:
\* 0 at creation, red_duration at the last red state, red_duration + 1 at the
\* first green one
Period(sd) == sd.green_duration + sd.red_duration + 2
Phase(sd) ==
    IF sd.state = "red"
    THEN sd.red_duration - sd.counter
    ELSE sd.red_duration + 1 + sd.green_duration - sd.counter

\* the counter of every signal is within 0 and the duration of its state, so
\* a signal is red exactly at the places 0..red_duration of its cycle
CounterInRange ==
    \A i \in DOMAIN signals :
      /\ 0 <= signals[i].counter
      /\ signals[i].counter <= Duration(signals[i])
      /\ signals[i].state = "red" <=> Phase(signals[i]) <= signals[i].red_duration

\* a new signal is at place 0, and every call of update_signals moves every
\* signal one place on in its cycle
CycleStep ==
    /\ last'.op = "add_intersection" /\ last'.err = "none"
         => Phase(signals'[last'.a]) = 0
    /\ last'.op = "update_signals"
         => \A i \in DOMAIN signals :
              /\ Period(signals'[i]) = Period(signals[i])
              /\ Phase(signals'[i]) = (Phase(signals[i]) + 1) % Period(signals[i])

\* intersection i is there and its signal is in state st
Shows(i, st) == i \in DOMAIN signals /\ signals[i].state = st

\* C21: with update_signals called for ever, every signal, whatever its
\* durations >= 0, is green again and again and red again and again; from its
\* creation it is red for red_duration + 1 states, then green for
\* green_duration + 1, and so on with period green_duration + red_duration
\* + 2; its counter is always within 0 and the duration of its state.
C21_SignalsNeverStuck ==
    /\ []CounterInRange
    /\ [][CycleStep]_vars
    /\ \A i \in Ids :
         /\ (i \in DOMAIN signals) ~> Shows(i, "green")
         /\ Shows(i, "green") ~> Shows(i, "red")

\* a signal with green duration 2 and red duration 1 has gone through its
\* red phase and is at the last state of its green phase
C21_Witness ==
    /\ last.op = "update_signals"
    /\ \E i \in DOMAIN signals :
         /\ signals[i].green_duration = 2 /\ signals[i].red_duration = 1
         /\ signals[i].state = "green" /\ signals[i].counter = 0

====
